---- MODULE Spec2Model ----
(***************************************************************************)
(* SpecterApp (src/App.js): the upload / normalize / history state machine *)
(* of the App component.  React state (uploading, progress, error, chat,   *)
(* history), the AsyncStorage record "specter_history", and the position   *)
(* of every outstanding handlePickImage -> uploadFile async call chain.    *)
(*                                                                         *)
(* A step of the model is one synchronous stretch of JavaScript between    *)
(* two awaits (or one timer callback).  JavaScript values are records      *)
(* [t |-> type, v |-> text] so that undefined, null, "" and objects stay   *)
(* distinct.                                                               *)
(***************************************************************************)
EXTENDS Integers, Sequences, FiniteSets, TLC

(* ------------------------------ bounds -------------------------------- *)
\* handlePickImage call chains that may be outstanding at once
MaxHandlers == 2
\* presses of the upload button in one run
MaxPresses == 2
\* presses of the upload button in one run of LongSpec
MaxLongPresses == 22

(* -------------------------- program constants -------------------------- *)
HistoryCap == 20
ProgressStep == 10
ProgressCap == 90
ProgressDone == 100

(* --------------------------- JavaScript values ------------------------- *)
Undefined == [t |-> "undefined", v |-> ""]
Null == [t |-> "null", v |-> ""]
Str(s) == [t |-> "string", v |-> s]
Num(s) == [t |-> "number", v |-> s]
Obj(s) == [t |-> "object", v |-> s]

\* ToBoolean(x) = false
Falsy(x) ==
    \/ x.t \in {"undefined", "null"}
    \/ x.t = "string" /\ x.v = ""
    \/ x.t = "number" /\ x.v \in {"0", "NaN"}

\* a || b
JsOr(a, b) == IF Falsy(a) THEN b ELSE a

(* ------------------------------ payloads ------------------------------- *)
PayloadKeys ==
    {"filename", "file_size", "original_text", "raw_urdu_text", "corrected_text",
     "corrected_urdu_text", "fir_structured_data", "extraction_type",
     "corrections_applied", "correction_stats"}

\* reading a property the JSON object does not have yields undefined
EmptyPayload == [k \in PayloadKeys |-> Undefined]

ScenarioPayload ==
    [EmptyPayload EXCEPT !["filename"] = Str("a.jpg"),
                         !["file_size"] = Num("1024"),
                         !["raw_urdu_text"] = Str("matn"),
                         !["fir_structured_data"] = Obj("{fir_number:123}")]

FullPayload ==
    [filename |-> Str("b.jpg"), file_size |-> Num("2048"),
     original_text |-> Str("orig"), raw_urdu_text |-> Str("raw"),
     corrected_text |-> Str(""), corrected_urdu_text |-> Str("X"),
     fir_structured_data |-> Null, extraction_type |-> Str("ocr"),
     corrections_applied |-> Num("0"), correction_stats |-> Obj("{fixed:2}")]

Payloads == {ScenarioPayload}

\* what a field of the response may hold: nothing (the key is absent), null, the
\* empty string, or the given value
FieldValues(x) == {Undefined, Null, Str(""), x}

\* The payloads the normalizer is run on by itself: the four text fields and
\* extraction_type each absent, null, empty or given, correction_stats absent, null
\* or given, and the copied fields as in ScenarioPayload or as in FullPayload.
NormPayloads ==
    {[base EXCEPT !["original_text"] = ot, !["raw_urdu_text"] = rt,
                  !["corrected_text"] = ct, !["corrected_urdu_text"] = cu,
                  !["extraction_type"] = et, !["correction_stats"] = cs] :
        base \in {ScenarioPayload, FullPayload},
        ot \in FieldValues(Str("orig")), rt \in FieldValues(Str("raw")),
        ct \in FieldValues(Str("corr")), cu \in FieldValues(Str("X")),
        et \in FieldValues(Str("ocr")),
        cs \in {Undefined, Null, Obj("{fixed:2}")}}

(* ---------------------------- HTTP responses --------------------------- *)
\* what response.json() will do with the body
UnparseableBody == [kind |-> "unparseable", data |-> EmptyPayload, detail |-> Undefined]
NullBody == [kind |-> "null", data |-> EmptyPayload, detail |-> Undefined]
ObjectBody(p, d) == [kind |-> "object", data |-> p, detail |-> d]

Details == {Undefined, Str(""), Str("Unsupported file type")}

OkStatuses == {200}
ErrStatuses == {422, 500}

Responses ==
    [status : OkStatuses,
     body : {UnparseableBody, NullBody} \cup {ObjectBody(p, Undefined) : p \in Payloads}]
    \cup
    [status : ErrStatuses,
     body : {UnparseableBody} \cup {ObjectBody(EmptyPayload, d) : d \in Details}]

\* every response taken for a success
OkUnchecked(r) == TRUE

\* response.ok
Ok(r) == r.status >= 200 /\ r.status <= 299

\* messages of fetch() rejections
TransportMessages == {Str("Network request failed")}

\* message of the SyntaxError response.json() rejects with
JsonParseMessage == Str("JSON Parse error: Unexpected token")

\* message of the TypeError raised by data.filename when data is null
NullDataMessage == Str("Cannot read property 'filename' of null")

PermissionMessage == Str("Permission to access media library is required.")

(* --------------------------- error messages ---------------------------- *)
\* `Upload failed with status ${response.status}`
StatusMessage(status) == Str("Upload failed with status " \o ToString(status))

\* the message if the body of the error response were never read
BackendMessageWithoutDetail(r) == StatusMessage(r.status)

\* the message thrown by the !response.ok branch, given how response.json() settles
BackendMessage(r) ==
    IF r.body.kind = "object" /\ ~Falsy(r.body.detail)
    THEN r.body.detail
    ELSE StatusMessage(r.status)

\* catch (e): e.message || "Failed to process file"
CatchMessage(m) == JsOr(m, Str("Failed to process file"))

(* ----------------------------- normalizer ------------------------------ *)
\* Date.now().toString()
NewId(t) == Str(ToString(t))

\* new Date().toISOString()
NewTimestamp(t) == Str("1970-01-01T00:00:00.00" \o ToString(t) \o "Z")

\* a ?? b
NullishOr(a, b) == IF a.t \in {"undefined", "null"} THEN b ELSE a

\* mappedChat with ?? in place of || in the two text fallbacks
MappedChatNullish(data, t) ==
    [id |-> NewId(t),
     timestamp |-> NewTimestamp(t),
     filename |-> data.filename,
     fileSize |-> data.file_size,
     originalText |-> NullishOr(data.original_text, data.raw_urdu_text),
     correctedText |-> NullishOr(data.corrected_text, data.corrected_urdu_text),
     rawUrduText |-> data.raw_urdu_text,
     firStructuredData |-> data.fir_structured_data,
     extractionType |-> JsOr(data.extraction_type, Str("text")),
     correctionsApplied |-> data.corrections_applied,
     correctionStats |-> JsOr(data.correction_stats, Obj("{}"))]

\* mappedChat without the two literal defaults
MappedChatWithoutDefaults(data, t) ==
    [id |-> NewId(t),
     timestamp |-> NewTimestamp(t),
     filename |-> data.filename,
     fileSize |-> data.file_size,
     originalText |-> JsOr(data.original_text, data.raw_urdu_text),
     correctedText |-> JsOr(data.corrected_text, data.corrected_urdu_text),
     rawUrduText |-> data.raw_urdu_text,
     firStructuredData |-> data.fir_structured_data,
     extractionType |-> data.extraction_type,
     correctionsApplied |-> data.corrections_applied,
     correctionStats |-> data.correction_stats]

\* The chat object the website's createNewChat builds from fileData, as the
\* parity document lists it (the fields other than id and timestamp)
CreateNewChat(fileData) ==
    [filename |-> fileData.filename,
     fileSize |-> fileData.file_size,
     originalText |-> JsOr(fileData.original_text, fileData.raw_urdu_text),
     correctedText |-> JsOr(fileData.corrected_text, fileData.corrected_urdu_text),
     rawUrduText |-> fileData.raw_urdu_text,
     firStructuredData |-> fileData.fir_structured_data,
     extractionType |-> JsOr(fileData.extraction_type, Str("text")),
     correctionsApplied |-> fileData.corrections_applied,
     correctionStats |-> JsOr(fileData.correction_stats, Obj("{}"))]

\* the object literal mappedChat
MappedChat(data, t) ==
    [id |-> NewId(t),
     timestamp |-> NewTimestamp(t),
     filename |-> data.filename,
     fileSize |-> data.file_size,
     originalText |-> JsOr(data.original_text, data.raw_urdu_text),
     correctedText |-> JsOr(data.corrected_text, data.corrected_urdu_text),
     rawUrduText |-> data.raw_urdu_text,
     firStructuredData |-> data.fir_structured_data,
     extractionType |-> JsOr(data.extraction_type, Str("text")),
     correctionsApplied |-> data.corrections_applied,
     correctionStats |-> JsOr(data.correction_stats, Obj("{}"))]

ResultKeys ==
    {"id", "timestamp", "filename", "fileSize", "originalText", "correctedText",
     "rawUrduText", "firStructuredData", "extractionType", "correctionsApplied",
     "correctionStats"}

(* ------------------------------- history ------------------------------- *)
Min(a, b) == IF a < b THEN a ELSE b

\* Array.prototype.slice(from, to) for 0 <= from <= to
Slice(s, from, to) == SubSeq(s, from + 1, Min(to, Len(s)))

\* The `history` that uploadFile reads while the history state is cur.  uploadFile
\* and handlePickImage are both memoized by useCallback with an empty dependency
\* list, so the function that runs is the one created by the first render, whose
\* `history` is the initial useState([]) value.
ClosureHistory(cur) == << >>

\* [mappedChat, ...cur] of the current history, without slice
NextHistoryUncapped(mappedChat, cur) == <<mappedChat>> \o cur

\* const nextHistory = [mappedChat, ...history].slice(0, 20)
NextHistory(mappedChat, cur) ==
    Slice(<<mappedChat>> \o ClosureHistory(cur), 0, HistoryCap)

\* JSON.stringify of one entry: a property whose value is undefined is left out
StringifyEntry(e) == [k \in {x \in DOMAIN e : e[x] # Undefined} |-> e[k]]

\* JSON.stringify(nextHistory)
Stringify(h) == [i \in 1..Len(h) |-> StringifyEntry(h[i])]

(* -------------------------------- state -------------------------------- *)
VARIABLES
    uploading,   \* useState(false)
    progress,    \* useState(0)
    error,       \* useState(null)
    chat,        \* useState(null)
    history,     \* useState([])
    stored,      \* the AsyncStorage record under "specter_history"
    now,         \* the latest reading of the millisecond clock (Date.now())
    pc,          \* position of each handlePickImage -> uploadFile call chain
    interval,    \* per chain: the simulateProgress interval and its `current`
    resp,        \* per chain: the response fetch resolved with
    nextHist,    \* per chain: the local const nextHistory
    timers,      \* pending setTimeout(() => setProgress(0), 1000) callbacks
    nPresses,    \* presses of the upload button so far
    created,     \* every mappedChat built so far, most recent first
    overlapped   \* whether the button was ever pressed while a call chain was running

vars ==
    <<uploading, progress, error, chat, history, stored, now, pc, interval,
      resp, nextHist, timers, nPresses, created, overlapped>>

Procs == 1..MaxHandlers

NoInterval == [active |-> FALSE, current |-> 0]
NoResponse == [status |-> 0, body |-> UnparseableBody]
NoRecord == [present |-> FALSE, value |-> << >>]

Free(p) == pc[p] = "idle"

\* no call chain is between setChat and setHistory
Quiescent == \A p \in Procs : pc[p] # "setHistory"

Init ==
    /\ uploading = FALSE
    /\ progress = 0
    /\ error = Null
    /\ chat = Null
    /\ history = << >>
    /\ stored = NoRecord
    /\ now = 0
    /\ pc = [p \in Procs |-> "idle"]
    /\ interval = [p \in Procs |-> NoInterval]
    /\ resp = [p \in Procs |-> NoResponse]
    /\ nextHist = [p \in Procs |-> << >>]
    /\ timers = 0
    /\ nPresses = 0
    /\ created = << >>
    /\ overlapped = FALSE

(* ------------------------------- actions ------------------------------- *)
\* the finally block without setUploading(false)
FinallyKeepingUploading ==
    /\ uploading' = uploading
    /\ timers' = timers + 1

\* finally { setUploading(false); setTimeout(() => setProgress(0), 1000); }
Finally ==
    /\ uploading' = FALSE
    /\ timers' = timers + 1

\* the catch block without clearInterval(progressInterval)
CatchFinallyLeaking(p, m) ==
    /\ interval' = interval
    /\ error' = CatchMessage(m)
    /\ Finally
    /\ pc' = [pc EXCEPT ![p] = "idle"]
    /\ resp' = [resp EXCEPT ![p] = NoResponse]

\* catch (e) { clearInterval(progressInterval); setError(e.message || ...); } finally
CatchFinally(p, m) ==
    /\ interval' = [interval EXCEPT ![p] = NoInterval]
    /\ error' = CatchMessage(m)
    /\ Finally
    /\ pc' = [pc EXCEPT ![p] = "idle"]
    /\ resp' = [resp EXCEPT ![p] = NoResponse]

\* onPress={handlePickImage} of the upload button, which is disabled={uploading};
\* runs handlePickImage up to its first await.  The native picker covers the
\* screen while it is open.
PressButton(p) ==
    /\ Quiescent
    /\ ~uploading
    /\ Free(p)
    /\ \A q \in Procs : q < p => ~Free(q)
    /\ \A q \in Procs : pc[q] # "picker"
    /\ error' = Null
    /\ pc' = [pc EXCEPT ![p] = "permission"]
    /\ nPresses' = nPresses + 1
    /\ overlapped' = (overlapped \/ \E q \in Procs : ~Free(q))
    /\ UNCHANGED <<uploading, progress, chat, history, stored, now, interval,
                   resp, nextHist, timers, created>>

\* requestMediaLibraryPermissionsAsync() resolves with granted = false
PermissionDenied(p) ==
    /\ Quiescent
    /\ pc[p] = "permission"
    /\ error' = PermissionMessage
    /\ pc' = [pc EXCEPT ![p] = "idle"]
    /\ UNCHANGED <<uploading, progress, chat, history, stored, now, interval,
                   resp, nextHist, timers, nPresses, created, overlapped>>

\* requestMediaLibraryPermissionsAsync() resolves with granted = true
PermissionGranted(p) ==
    /\ Quiescent
    /\ pc[p] = "permission"
    /\ pc' = [pc EXCEPT ![p] = "picker"]
    /\ UNCHANGED <<uploading, progress, error, chat, history, stored, now,
                   interval, resp, nextHist, timers, nPresses, created, overlapped>>

\* launchImageLibraryAsync() resolves canceled or without assets (or rejects)
PickerCanceled(p) ==
    /\ Quiescent
    /\ pc[p] = "picker"
    /\ pc' = [pc EXCEPT ![p] = "idle"]
    /\ UNCHANGED <<uploading, progress, error, chat, history, stored, now,
                   interval, resp, nextHist, timers, nPresses, created, overlapped>>

\* Whether some mappedChat already took its id from reading t of the clock
Used(t) == \E i \in 1..Len(created) : created[i].id = NewId(t)

\* the start of uploadFile without either setProgress(0)
StartUploadKeepingProgress(p) ==
    /\ Quiescent
    /\ pc[p] = "picker"
    /\ uploading' = TRUE
    /\ error' = Null
    /\ interval' = [interval EXCEPT ![p] = [active |-> TRUE, current |-> 0]]
    /\ pc' = [pc EXCEPT ![p] = "fetch"]
    /\ now' = IF Used(now) THEN now + 1 ELSE now
    /\ UNCHANGED <<progress, chat, history, stored, resp, nextHist, timers, nPresses,
                   created, overlapped>>

\* launchImageLibraryAsync() resolves with an asset: uploadFile runs up to
\* await fetch(...), simulateProgress included.  Picking a file and sending it
\* take more than a millisecond, so a reading of the clock that an earlier
\* mappedChat used is in the past by the time this request is answered.
StartUpload(p) ==
    /\ Quiescent
    /\ pc[p] = "picker"
    /\ uploading' = TRUE
    /\ error' = Null
    /\ progress' = 0
    /\ interval' = [interval EXCEPT ![p] = [active |-> TRUE, current |-> 0]]
    /\ pc' = [pc EXCEPT ![p] = "fetch"]
    /\ now' = IF Used(now) THEN now + 1 ELSE now
    /\ UNCHANGED <<chat, history, stored, resp, nextHist, timers, nPresses, created,
                   overlapped>>

\* the next value of simulateProgress's `current`
NextCurrent(current) ==
    IF current + ProgressStep >= ProgressCap THEN ProgressCap ELSE current + ProgressStep

\* the callback without the cap: no current = 90, no clearInterval
IntervalTickUncapped(p) ==
    /\ Quiescent
    /\ interval[p].active
    /\ interval' = [interval EXCEPT
                      ![p] = [active |-> TRUE,
                              current |-> interval[p].current + ProgressStep]]
    /\ progress' = interval[p].current + ProgressStep
    /\ UNCHANGED <<uploading, error, chat, history, stored, now, pc, resp,
                   nextHist, timers, nPresses, created, overlapped>>

\* the setInterval callback of simulateProgress
IntervalTick(p) ==
    /\ Quiescent
    /\ interval[p].active
    /\ interval' = [interval EXCEPT
                      ![p] = [active |-> (interval[p].current + ProgressStep < ProgressCap),
                              current |-> NextCurrent(interval[p].current)]]
    /\ progress' = NextCurrent(interval[p].current)
    /\ UNCHANGED <<uploading, error, chat, history, stored, now, pc, resp,
                   nextHist, timers, nPresses, created, overlapped>>

\* fetch rejects (no response): catch, finally
FetchRejects(p) ==
    /\ Quiescent
    /\ pc[p] = "fetch"
    /\ \E m \in TransportMessages : CatchFinally(p, m)
    /\ UNCHANGED <<progress, chat, history, stored, now, nextHist, nPresses,
                   created, overlapped>>

\* fetch resolves, with setProgress(100) moved behind the if (!response.ok) check
FetchRespondsCheckingFirst(p) ==
    /\ Quiescent
    /\ pc[p] = "fetch"
    /\ \E r \in Responses :
          /\ resp' = [resp EXCEPT ![p] = r]
          /\ pc' = [pc EXCEPT ![p] = IF Ok(r) THEN "json" ELSE "errJson"]
          /\ progress' = IF Ok(r) THEN ProgressDone ELSE progress
    /\ interval' = [interval EXCEPT ![p] = NoInterval]
    /\ UNCHANGED <<uploading, error, chat, history, stored, now, nextHist,
                   timers, nPresses, created, overlapped>>

\* fetch resolves: clearInterval, setProgress(100), then await response.json()
\* on one of the two branches of if (!response.ok)
FetchResponds(p) ==
    /\ Quiescent
    /\ pc[p] = "fetch"
    /\ \E r \in Responses :
          /\ resp' = [resp EXCEPT ![p] = r]
          /\ pc' = [pc EXCEPT ![p] = IF Ok(r) THEN "json" ELSE "errJson"]
    /\ interval' = [interval EXCEPT ![p] = NoInterval]
    /\ progress' = ProgressDone
    /\ UNCHANGED <<uploading, error, chat, history, stored, now, nextHist,
                   timers, nPresses, created, overlapped>>

\* a non-2xx response answered by sending the request again
ErrorBodySettlesRetrying(p) ==
    /\ Quiescent
    /\ pc[p] = "errJson"
    /\ pc' = [pc EXCEPT ![p] = "fetch"]
    /\ resp' = [resp EXCEPT ![p] = NoResponse]
    /\ UNCHANGED <<uploading, progress, error, chat, history, stored, now, interval,
                   nextHist, timers, nPresses, created, overlapped>>

\* !response.ok: response.json() settles, throw new Error(message), catch, finally
ErrorBodySettles(p) ==
    /\ Quiescent
    /\ pc[p] = "errJson"
    /\ CatchFinally(p, BackendMessage(resp[p]))
    /\ UNCHANGED <<progress, chat, history, stored, now, nextHist, nPresses,
                   created, overlapped>>

\* response.ok: await response.json() rejects, or data is null and data.filename
\* throws: catch, finally
BodyFails(p) ==
    /\ Quiescent
    /\ pc[p] = "json"
    /\ resp[p].body.kind # "object"
    /\ CatchFinally(p, IF resp[p].body.kind = "null" THEN NullDataMessage
                       ELSE JsonParseMessage)
    /\ UNCHANGED <<progress, chat, history, stored, now, nextHist, nPresses,
                   created, overlapped>>

\* What Date.now() may return when mappedChat is built: the reading the chain
\* started with, or a later one.  Only the equality of ids depends on it, so the
\* later reading is taken only where an id was already made from the earlier one
\* (by a chain that ran at the same time).
ClockReadings == IF Used(now) THEN {now, now + 1} ELSE {now}

\* the success path with a mappedChat that keeps the texts of the result on
\* display where the payload gives none
BodyResolvesMerging(p) ==
    /\ Quiescent
    /\ pc[p] = "json"
    /\ resp[p].body.kind = "object"
    /\ \E t \in ClockReadings :
       LET fresh == MappedChat(resp[p].body.data, t)
           mappedChat ==
               IF chat = Null THEN fresh
               ELSE [fresh EXCEPT !.originalText = JsOr(fresh.originalText, chat.originalText),
                                  !.correctedText = JsOr(fresh.correctedText, chat.correctedText)]
           nextHistory == NextHistory(mappedChat, history)
       IN  /\ now' = t
           /\ chat' = mappedChat
           /\ nextHist' = [nextHist EXCEPT ![p] = nextHistory]
           /\ created' = <<mappedChat>> \o created
           /\ \E batched \in BOOLEAN :
                 /\ history' = IF batched THEN nextHistory ELSE history
                 /\ pc' = [pc EXCEPT ![p] = IF batched THEN "setItem" ELSE "setHistory"]
    /\ resp' = [resp EXCEPT ![p] = NoResponse]
    /\ UNCHANGED <<uploading, progress, error, stored, interval, timers, nPresses,
                   overlapped>>

\* response.ok: response.json() resolves with an object: mappedChat is built,
\* setChat(mappedChat), setHistory(nextHistory), then await AsyncStorage.setItem(...).
\* The two setters run after an await: a legacy React root commits (renders) each
\* on its own, a batching root commits both together.
BodyResolves(p) ==
    /\ Quiescent
    /\ pc[p] = "json"
    /\ resp[p].body.kind = "object"
    /\ \E t \in ClockReadings :
       LET mappedChat == MappedChat(resp[p].body.data, t)
           nextHistory == NextHistory(mappedChat, history)
       IN  /\ now' = t
           /\ chat' = mappedChat
           /\ nextHist' = [nextHist EXCEPT ![p] = nextHistory]
           /\ created' = <<mappedChat>> \o created
           /\ \E batched \in BOOLEAN :
                 /\ history' = IF batched THEN nextHistory ELSE history
                 /\ pc' = [pc EXCEPT ![p] = IF batched THEN "setItem" ELSE "setHistory"]
    /\ resp' = [resp EXCEPT ![p] = NoResponse]
    /\ UNCHANGED <<uploading, progress, error, stored, interval, timers, nPresses,
                   overlapped>>

\* setHistory(nextHistory) committed on its own, after the render that showed
\* setChat(mappedChat); then await AsyncStorage.setItem(...)
SetHistory(p) ==
    /\ pc[p] = "setHistory"
    /\ history' = nextHist[p]
    /\ pc' = [pc EXCEPT ![p] = "setItem"]
    /\ UNCHANGED <<uploading, progress, error, chat, stored, now, interval,
                   resp, nextHist, timers, nPresses, created, overlapped>>

\* the same without the inner try/catch: a rejected write reaches the outer catch
StorageSettlesUncaught(p) ==
    /\ Quiescent
    /\ pc[p] = "setItem"
    /\ \E ok \in BOOLEAN :
          /\ stored' = IF ok THEN [present |-> TRUE, value |-> Stringify(nextHist[p])]
                       ELSE stored
          /\ error' = IF ok THEN error ELSE CatchMessage(Str("Failed to write"))
    /\ Finally
    /\ pc' = [pc EXCEPT ![p] = "idle"]
    /\ nextHist' = [nextHist EXCEPT ![p] = << >>]
    /\ UNCHANGED <<progress, chat, history, now, interval, resp, nPresses, created,
                   overlapped>>

\* AsyncStorage.setItem("specter_history", JSON.stringify(nextHistory)) resolves
\* (ok) or rejects (the inner catch swallows it); finally
StorageSettles(p) ==
    /\ Quiescent
    /\ pc[p] = "setItem"
    /\ \E ok \in BOOLEAN :
          stored' = IF ok THEN [present |-> TRUE, value |-> Stringify(nextHist[p])]
                    ELSE stored
    /\ Finally
    /\ pc' = [pc EXCEPT ![p] = "idle"]
    /\ nextHist' = [nextHist EXCEPT ![p] = << >>]
    /\ UNCHANGED <<progress, error, chat, history, now, interval, resp,
                   nPresses, created, overlapped>>

\* the callback of setTimeout(() => setProgress(0), 1000)
ResetTimerFires ==
    /\ Quiescent
    /\ timers > 0
    /\ progress' = 0
    /\ timers' = timers - 1
    /\ UNCHANGED <<uploading, error, chat, history, stored, now, pc, interval,
                   resp, nextHist, nPresses, created, overlapped>>

\* a chip handler that also saves the history it shows
SelectHistorySaving(i) ==
    /\ Quiescent
    /\ i \in 1..Len(history)
    /\ chat' = history[i]
    /\ error' = Null
    /\ stored' = [present |-> TRUE, value |-> Stringify(history)]
    /\ UNCHANGED <<uploading, progress, history, now, pc, interval,
                   resp, nextHist, timers, nPresses, created, overlapped>>

\* onPress of a history chip: setChat(item); setError(null)
SelectHistory(i) ==
    /\ Quiescent
    /\ i \in 1..Len(history)
    /\ chat' = history[i]
    /\ error' = Null
    /\ UNCHANGED <<uploading, progress, history, stored, now, pc, interval,
                   resp, nextHist, timers, nPresses, created, overlapped>>

\* the user presses the button, up to MaxPresses times
Press(p) == nPresses < MaxPresses /\ PressButton(p)

Next ==
    \/ \E p \in Procs : Press(p)
    \/ \E p \in Procs : PermissionDenied(p)
    \/ \E p \in Procs : PermissionGranted(p)
    \/ \E p \in Procs : PickerCanceled(p)
    \/ \E p \in Procs : StartUpload(p)
    \/ \E p \in Procs : IntervalTick(p)
    \/ \E p \in Procs : FetchRejects(p)
    \/ \E p \in Procs : FetchResponds(p)
    \/ \E p \in Procs : ErrorBodySettles(p)
    \/ \E p \in Procs : BodyFails(p)
    \/ \E p \in Procs : BodyResolves(p)
    \/ \E p \in Procs : SetHistory(p)
    \/ \E p \in Procs : StorageSettles(p)
    \/ ResetTimerFires
    \/ \E i \in 1..HistoryCap : SelectHistory(i)

Spec == Init /\ [][Next]_vars

\* What the platform's scheduling gives: a pending fetch settles, a pending
\* response.json() settles, a pending state update is committed, a pending
\* AsyncStorage.setItem settles, and a scheduled setTimeout callback runs.  The
\* user need not press, answer the permission prompt or pick a file, and the
\* estimator need not tick before the response is there.
Fairness ==
    /\ \A p \in Procs : WF_vars(FetchRejects(p) \/ FetchResponds(p))
    /\ \A p \in Procs : WF_vars(ErrorBodySettles(p))
    /\ \A p \in Procs : WF_vars(BodyFails(p) \/ BodyResolves(p))
    /\ \A p \in Procs : WF_vars(SetHistory(p))
    /\ \A p \in Procs : WF_vars(StorageSettles(p))
    /\ WF_vars(ResetTimerFires)

\* a press made while at most one earlier call chain is still running
FairPress(p) == Press(p) /\ Cardinality({q \in Procs : ~Free(q)}) <= 1

FairNext ==
    \/ \E p \in Procs : FairPress(p)
    \/ \E p \in Procs : PermissionDenied(p)
    \/ \E p \in Procs : PermissionGranted(p)
    \/ \E p \in Procs : PickerCanceled(p)
    \/ \E p \in Procs : StartUpload(p)
    \/ \E p \in Procs : IntervalTick(p)
    \/ \E p \in Procs : FetchRejects(p)
    \/ \E p \in Procs : FetchResponds(p)
    \/ \E p \in Procs : ErrorBodySettles(p)
    \/ \E p \in Procs : BodyFails(p)
    \/ \E p \in Procs : BodyResolves(p)
    \/ \E p \in Procs : SetHistory(p)
    \/ \E p \in Procs : StorageSettles(p)
    \/ ResetTimerFires
    \/ \E i \in 1..HistoryCap : SelectHistory(i)

\* Fair runs in which at most two call chains run at the same time
FairSpec == Init /\ [][FairNext]_vars /\ Fairness

\* Runs of one call chain at a time, long enough for the history cap to matter:
\* the button is pressed again only after the previous chain has ended and its
\* reset timer has fired, every response arrives before the first tick of the
\* progress interval, a failed upload fails at the network, and the chip that is
\* tapped is the oldest one.
LongPress == nPresses < MaxLongPresses /\ timers = 0 /\ PressButton(1)

LongNext ==
    \/ LongPress
    \/ PermissionGranted(1)
    \/ StartUpload(1)
    \/ FetchRejects(1)
    \/ FetchResponds(1)
    \/ BodyResolves(1)
    \/ SetHistory(1)
    \/ StorageSettles(1)
    \/ ResetTimerFires
    \/ SelectHistory(Len(history))

LongSpec == Init /\ [][LongNext]_vars

\* The process ends and the app is started again: App mounts with the initial
\* values of its five useState calls.  Nothing in App reads AsyncStorage (there is
\* no getItem and no effect), so the record written by earlier uploads is left
\* where it is and is not looked at.  The promises, the intervals and the timers
\* of the old process are gone with it; the clock goes on.
Restart ==
    /\ uploading' = FALSE
    /\ progress' = 0
    /\ error' = Null
    /\ chat' = Null
    /\ history' = << >>
    /\ pc' = [p \in Procs |-> "idle"]
    /\ interval' = [p \in Procs |-> NoInterval]
    /\ resp' = [p \in Procs |-> NoResponse]
    /\ nextHist' = [p \in Procs |-> << >>]
    /\ timers' = 0
    /\ UNCHANGED <<stored, now, nPresses, created, overlapped>>

RestartNext == Next \/ Restart

\* Runs in which the process may be ended and started again at any moment
RestartSpec == Init /\ [][RestartNext]_vars

\* The normalizer by itself: a first upload has been answered 200 and
\* response.json() is about to resolve with one of NormPayloads.
NormInit ==
    /\ uploading = TRUE
    /\ progress = ProgressDone
    /\ error = Null
    /\ chat = Null
    /\ history = << >>
    /\ stored = NoRecord
    /\ now = 0
    /\ pc = [p \in Procs |-> IF p = 1 THEN "json" ELSE "idle"]
    /\ interval = [p \in Procs |-> NoInterval]
    /\ \E P \in NormPayloads :
          resp = [p \in Procs |-> IF p = 1
                                  THEN [status |-> 200, body |-> ObjectBody(P, Undefined)]
                                  ELSE NoResponse]
    /\ nextHist = [p \in Procs |-> << >>]
    /\ timers = 0
    /\ nPresses = 1
    /\ created = << >>
    /\ overlapped = FALSE

NormNext ==
    \/ BodyResolves(1)
    \/ SetHistory(1)
    \/ StorageSettles(1)
    \/ ResetTimerFires

NormSpec == NormInit /\ [][NormNext]_vars

\* the result of an earlier upload answered with FullPayload at clock reading 0
PriorChat == MappedChat(FullPayload, 0)

\* The normalizer in two session states: as in NormInit, or in the second upload
\* of a session whose first upload was answered with FullPayload, succeeded, was
\* persisted and had its reset timer fire.
ParityInit ==
    /\ uploading = TRUE
    /\ progress = ProgressDone
    /\ error = Null
    /\ pc = [p \in Procs |-> IF p = 1 THEN "json" ELSE "idle"]
    /\ interval = [p \in Procs |-> NoInterval]
    /\ \E P \in NormPayloads :
          resp = [p \in Procs |-> IF p = 1
                                  THEN [status |-> 200, body |-> ObjectBody(P, Undefined)]
                                  ELSE NoResponse]
    /\ nextHist = [p \in Procs |-> << >>]
    /\ timers = 0
    /\ overlapped = FALSE
    /\ \E prior \in BOOLEAN :
          /\ chat = IF prior THEN PriorChat ELSE Null
          /\ history = IF prior THEN <<PriorChat>> ELSE << >>
          /\ created = IF prior THEN <<PriorChat>> ELSE << >>
          /\ stored = IF prior THEN [present |-> TRUE, value |-> Stringify(<<PriorChat>>)]
                       ELSE NoRecord
          /\ now = IF prior THEN 1 ELSE 0
          /\ nPresses = IF prior THEN 2 ELSE 1

ParitySpec == ParityInit /\ [][NormNext]_vars

(* ------------------------------- claims -------------------------------- *)
\* chains whose fetch has been issued and not yet settled
Outstanding == {p \in Procs : pc[p] = "fetch"}

\* C1: after n successful uploads, each submitted after the previous one completed,
\* History holds exactly the min(n, 20) most recently built results, most recent
\* first.
C1_HistoryHoldsMostRecent ==
    (~overlapped /\ Quiescent) => history = Slice(created, 0, HistoryCap)

\* C2: in every reachable state at most one upload request is outstanding (a
\* submit made while an upload is in flight issues no second request).
C2_AtMostOneRequest == Cardinality(Outstanding) <= 1

\* C3: in every reachable state the in-memory History has at most 20 entries.
C3_HistoryWithinCap == Len(history) <= HistoryCap

\* more results than the cap have been built, and History holds one
C3_Witness == Len(created) > HistoryCap /\ Len(history) >= 1

\* the transaction that got response r has failed by the claim's account: the
\* status is not 2xx, or the body cannot be parsed
FailedResponse(r) == r.status < 200 \/ r.status > 299 \/ r.body.kind = "unparseable"

\* C4: a transaction that fails (no response, a non-2xx response, an unparseable
\* body) changes neither History, nor the persisted record, nor the current result,
\* from its submit on; no result is built from it; the step that handles the
\* failure ends it with a non-null error and the uploading flag cleared.
C4_FailureLeavesResults ==
    [][\A p \in Procs :
          /\ (pc[p] \in {"picker", "fetch"} /\ pc'[p] # pc[p])
                => UNCHANGED <<history, stored, chat, created>>
          /\ (\/ pc[p] = "fetch" /\ pc'[p] = "idle"
              \/ pc[p] \in {"errJson", "json"} /\ FailedResponse(resp[p]) /\ pc'[p] # pc[p])
                => /\ pc'[p] = "idle"
                   /\ UNCHANGED <<history, stored, chat, created>>
                   /\ error' # Null
                   /\ ~uploading']_vars

\* an upload has failed with the backend's detail after an earlier one succeeded
\* and was persisted
C4_Witness ==
    /\ error = Str("Unsupported file type")
    /\ ~uploading
    /\ Len(history) = 1
    /\ stored.present
    /\ chat = history[1]

\* `Upload failed with status <code>`, as the claim words it
C5_StatusText(r) == Str("Upload failed with status " \o ToString(r.status))

\* C5 (as claimed): a non-2xx response whose body parses and contains a detail
\* field gives error = that detail; a non-2xx response without a parseable detail
\* gives the status-code message; a failure without response gives the transport's
\* message.
C5_DetailWheneverPresent ==
    [][\A p \in Procs :
          /\ (pc[p] = "errJson" /\ pc'[p] = "idle")
                => error' = IF resp[p].body.kind = "object"
                                 /\ resp[p].body.detail # Undefined
                             THEN resp[p].body.detail
                             ELSE C5_StatusText(resp[p])
          /\ (pc[p] = "fetch" /\ pc'[p] = "idle") => error' \in TransportMessages]_vars

\* C5 (amended): the detail is used when it is a non-empty string; a non-2xx
\* response whose body does not parse, has no detail, or has an empty detail gives
\* the status-code message; a failure without response gives the transport's
\* message.
C5_DetailWhenNonEmpty ==
    [][\A p \in Procs :
          /\ (pc[p] = "errJson" /\ pc'[p] = "idle")
                => error' = IF resp[p].body.kind = "object"
                                 /\ resp[p].body.detail.t = "string"
                                 /\ resp[p].body.detail.v # ""
                             THEN resp[p].body.detail
                             ELSE C5_StatusText(resp[p])
          /\ (pc[p] = "fetch" /\ pc'[p] = "idle") => error' \in TransportMessages]_vars

\* an upload has ended with the status-code message on display, after an earlier
\* one succeeded
C5_Witness ==
    /\ \A p \in Procs : pc[p] = "idle"
    /\ error = Str("Upload failed with status 422")
    /\ chat # Null
    /\ timers > 0

\* a result has a defined value under each of the eleven keys
C6_Complete(e) == DOMAIN e = ResultKeys /\ \A k \in ResultKeys : e[k] # Undefined

\* C6: every result (the current one, each History entry, each persisted entry) has
\* a defined value for each of the eleven keys.
C6_EveryKeyDefined ==
    /\ chat # Null => C6_Complete(chat)
    /\ \A i \in 1..Len(history) : C6_Complete(history[i])
    /\ \A i \in 1..Len(stored.value) : C6_Complete(stored.value[i])

\* C7: whenever the current result is the result built last, it is the head of
\* History.
C7_CurrentIsHistoryHead ==
    (created # << >> /\ chat = created[1]) => (history # << >> /\ history[1] = chat)

\* C8: a 2xx response with a parseable body sets progress to 100, and its
\* transaction builds a result from the payload with the clock's reading as id and
\* timestamp, makes it the current result and the head of History, and ends with
\* error null and the uploading flag cleared.
C8_ParseableBodySucceeds ==
    [][\A p \in Procs :
          /\ (pc[p] = "fetch" /\ pc'[p] = "json") => progress' = ProgressDone
          /\ (pc[p] = "json" /\ resp[p].body.kind # "unparseable" /\ pc'[p] # pc[p])
                => /\ pc'[p] \in {"setHistory", "setItem"}
                   /\ chat' = MappedChat(resp[p].body.data, now')
                   /\ created' = <<chat'>> \o created
          /\ (pc[p] # "setItem" /\ pc'[p] = "setItem")
                => (history' # << >> /\ history'[1] = chat' /\ chat' = created'[1])
          /\ (pc[p] = "setItem" /\ pc'[p] # pc[p])
                => (pc'[p] = "idle" /\ error' = Null /\ ~uploading')]_vars

\* C9: by the time the durable write is started the new result is the head of
\* History and the current result; a write that fails changes neither History, nor
\* the current result, nor error, and the transaction ends like any success.
C9_WriteFailureIsSilent ==
    [][\A p \in Procs :
          /\ (pc[p] # "setItem" /\ pc'[p] = "setItem")
                => /\ history' # << >>
                   /\ history'[1] = nextHist'[p][1]
                   /\ chat' = nextHist'[p][1]
          /\ (pc[p] = "setItem" /\ pc'[p] # pc[p] /\ stored' = stored)
                => /\ pc'[p] = "idle"
                   /\ UNCHANGED <<history, chat, error>>
                   /\ ~uploading']_vars

\* an upload has ended, its result is shown and heads History, nothing was
\* persisted and no error is on display
C9_Witness ==
    /\ \A p \in Procs : pc[p] = "idle"
    /\ ~stored.present
    /\ Len(history) = 1
    /\ chat = history[1]
    /\ error = Null
    /\ ~uploading

\* C10: a durable write that has not settled does not keep the session in flight:
\* with no other chain running, uploading is false while the write is pending.
C10_PendingWriteNotInFlight ==
    \A p \in Procs :
        (pc[p] = "setItem" /\ \A q \in Procs \ {p} : pc[q] = "idle") => ~uploading

\* what deserializing the record under "specter_history" yields: the stored
\* sequence, or an empty one when there is no record
C11_Persisted == IF stored.present THEN stored.value ELSE << >>

\* C11: when the process starts, History is the persisted sequence (empty when the
\* record is missing) and no error is on display.
C11_HistoryLoadedAtStart ==
    [][Restart => (history' = C11_Persisted /\ error' = Null)]_vars

\* C12: while an upload request is outstanding, every change of progress is an
\* increase, whenever the reset timers of earlier transactions fire (stated for
\* runs in which each submit was made after the previous call chain had ended).
C12_ProgressNeverDecreases ==
    [][(~overlapped' /\ \E p \in Procs : pc[p] = "fetch" /\ pc'[p] = "fetch")
          => progress' >= progress]_vars

\* 0, 10, 20, ..., 90
C13_EstimatorValues == {k * ProgressStep : k \in 0..(ProgressCap \div ProgressStep)}

\* C13: while a request is outstanding, progress is one of 0, 10, ..., 90; it is
\* never 100 before the response (or the failure) of that request has arrived.
C13_OnlyEstimatorValuesWhileOutstanding ==
    (Outstanding # {}) => progress \in C13_EstimatorValues

\* C14: the estimator interval of a transaction is active only while its request
\* is outstanding: once the response or the failure has been handled (and ever
\* after, the transaction having succeeded or failed) it is cancelled, so no tick
\* of it changes progress any more.
C14_IntervalEndsWithRequest ==
    \A p \in Procs : interval[p].active => pc[p] = "fetch"

\* a request has failed after three ticks of its estimator, and no interval is left
C14_Witness ==
    /\ \A p \in Procs : pc[p] = "idle" /\ ~interval[p].active
    /\ progress = 3 * ProgressStep
    /\ error \in TransportMessages
    /\ timers > 0

\* C15: the step by which a submit is accepted (the picker gives a file and
\* uploadFile starts) sets uploading, sets progress to 0 and error to null whatever
\* they were, starts the estimator of this transaction at 0 and issues exactly one
\* request, and changes neither History nor the current result.
C15_AcceptedSubmit ==
    [][\A p \in Procs :
          (pc[p] = "picker" /\ pc'[p] \notin {"picker", "idle"})
             => /\ pc'[p] = "fetch"
                /\ uploading'
                /\ progress' = 0
                /\ error' = Null
                /\ interval'[p] = [active |-> TRUE, current |-> 0]
                /\ p \notin Outstanding
                /\ Outstanding' = Outstanding \cup {p}
                /\ UNCHANGED <<history, chat>>]_vars

\* a second submit has been accepted after a first one that succeeded, whose
\* reset timer is still pending
C15_Witness ==
    /\ pc[1] = "fetch"
    /\ pc[2] = "idle"
    /\ uploading
    /\ progress = 0
    /\ error = Null
    /\ interval[1] = [active |-> TRUE, current |-> 0]
    /\ timers > 0
    /\ Len(history) = 1
    /\ chat = history[1]

\* no call chain is running
C16_AllIdle == \A p \in Procs : pc[p] = "idle"

\* C16: under fairness, every transaction whose request is outstanding eventually
\* ends with the uploading flag cleared (so that the button takes a new submit),
\* whether it succeeds or fails; and once no call chain is running, progress
\* eventually is 0 unless a new submit is made.
C16_EveryTransactionEnds ==
    /\ \A p \in Procs : (pc[p] = "fetch") ~> (pc[p] = "idle" /\ ~uploading)
    /\ C16_AllIdle ~> (progress = 0 \/ ~C16_AllIdle)

\* one upload has succeeded and one has failed, both have ended, the button is
\* enabled and progress is back at 0 with no timer left
C16_Witness ==
    /\ C16_AllIdle
    /\ ~uploading
    /\ progress = 0
    /\ timers = 0
    /\ chat # Null
    /\ error # Null

\* C17: selecting the i-th history item makes that entry the current result and
\* changes neither History nor the persisted record, in whatever state it is
\* done (a request outstanding or not).
C17_SelectChangesOnlyCurrent ==
    [][\A i \in 1..HistoryCap :
          SelectHistory(i) => /\ chat' = history[i]
                              /\ history' = history
                              /\ stored' = stored]_vars

\* two uploads made one after the other have ended, the first with a result and
\* the second by a network failure (progress is not 100 and neither reset timer
\* has fired), and the error of the second is gone: the chip has been tapped
C17_Witness ==
    /\ ~overlapped
    /\ \A p \in Procs : pc[p] = "idle"
    /\ timers = 2
    /\ progress < ProgressDone
    /\ Len(history) = 1
    /\ chat = history[1]
    /\ error = Null

\* C18: a request is issued only by the step that accepts a submit (the picker
\* giving a file to a call chain started by a press of the button), one request
\* per such step; a call chain whose request has been answered or has failed never
\* issues another, and a new chain starts only with a new press.  Hence as many
\* requests as accepted submits.
C18_OneRequestPerSubmit ==
    [][/\ Cardinality(Outstanding' \ Outstanding) <= 1
       /\ \A p \in Procs :
             /\ (pc[p] = "picker" /\ pc'[p] \notin {"picker", "idle"})
                   => p \in Outstanding' \ Outstanding
             /\ (pc'[p] = "fetch" /\ pc[p] # "fetch") => pc[p] = "picker"
             /\ (pc'[p] = "picker" /\ pc[p] # "picker") => pc[p] = "permission"
             /\ (pc'[p] = "permission" /\ pc[p] # "permission")
                   => (pc[p] = "idle" /\ nPresses' = nPresses + 1)]_vars

\* the only submit so far has failed with a 500 and has ended; no request is
\* outstanding
C18_Witness ==
    /\ nPresses = 1
    /\ \A p \in Procs : pc[p] = "idle"
    /\ Outstanding = {}
    /\ error = StatusMessage(500)
    /\ timers = 1

\* a source field that is neither absent, nor null, nor the empty string
C19_Given(x) == x \notin {Undefined, Null, Str("")}

\* the first source if it is given, else the second
C19_FirstOf(a, b) == IF C19_Given(a) THEN a ELSE b

\* C19: the result built from payload P copies filename, file_size, raw_urdu_text,
\* fir_structured_data and corrections_applied unmodified, has originalText =
\* original_text if given, else raw_urdu_text, and correctedText = corrected_text
\* if given, else corrected_urdu_text (corrected_text absent and
\* corrected_urdu_text = "X" gives "X").
C19_FieldMapping ==
    [][\A p \in Procs :
          (pc[p] = "json" /\ resp[p].body.kind = "object" /\ pc'[p] # pc[p])
             => LET P == resp[p].body.data
                IN  /\ chat'.filename = P.filename
                    /\ chat'.fileSize = P.file_size
                    /\ chat'.rawUrduText = P.raw_urdu_text
                    /\ chat'.firStructuredData = P.fir_structured_data
                    /\ chat'.correctionsApplied = P.corrections_applied
                    /\ chat'.originalText = C19_FirstOf(P.original_text, P.raw_urdu_text)
                    /\ chat'.correctedText =
                          C19_FirstOf(P.corrected_text, P.corrected_urdu_text)
                    /\ (P.corrected_text = Undefined /\ P.corrected_urdu_text = Str("X"))
                          => chat'.correctedText = Str("X")]_vars

\* a result whose two text fields both came from the fallback source
C19_Witness ==
    /\ chat # Null
    /\ chat.originalText = Str("raw")
    /\ chat.rawUrduText = Str("raw")
    /\ chat.correctedText = Str("X")
    /\ chat.filename = Str("b.jpg")

\* C20: a payload without extraction_type gives extractionType = "text", a payload
\* without correction_stats gives correctionStats = {} (not null), and a value
\* that is given (not absent, null or empty) is used unchanged.
C20_Defaults ==
    [][\A p \in Procs :
          (pc[p] = "json" /\ resp[p].body.kind = "object" /\ pc'[p] # pc[p])
             => LET P == resp[p].body.data
                IN  /\ P.extraction_type = Undefined => chat'.extractionType = Str("text")
                    /\ P.correction_stats = Undefined
                          => (chat'.correctionStats = Obj("{}") /\ chat'.correctionStats # Null)
                    /\ P.extraction_type \notin {Undefined, Null, Str("")}
                          => chat'.extractionType = P.extraction_type
                    /\ P.correction_stats \notin {Undefined, Null, Str("")}
                          => chat'.correctionStats = P.correction_stats]_vars

\* a persisted result that got both defaults
C20_Witness ==
    /\ chat # Null
    /\ chat.extractionType = Str("text")
    /\ chat.correctionStats = Obj("{}")
    /\ stored.present
    /\ stored.value[1].extractionType = Str("text")

\* a result without its id and timestamp
C21_Content(e) == [k \in DOMAIN e \ {"id", "timestamp"} |-> e[k]]

\* C21: the result built from a payload is, id and timestamp aside, what the
\* website's createNewChat builds from the same payload, field for field,
\* whatever the current result, History and the results built before are; so
\* two runs or two clients fed the same payload agree.
C21_SamePayloadSameResult ==
    [][\A p \in Procs :
          (pc[p] = "json" /\ resp[p].body.kind = "object" /\ pc'[p] # pc[p])
             => C21_Content(chat') = CreateNewChat(resp[p].body.data)]_vars

\* two results built from the same payload in two session states: different
\* ids, the same content
C21_Witness ==
    /\ Len(created) = 2
    /\ created[1].id # created[2].id
    /\ C21_Content(created[1]) = C21_Content(created[2])
    /\ chat = created[1]

\* the value read from entry e under key k (undefined when e has no such key)
C22_Read(e, k) == IF k \in DOMAIN e THEN e[k] ELSE Undefined

\* two sequences of results with the same length and, entry for entry, the same
\* value under each of the eleven keys
C22_SameEntries(a, b) ==
    /\ Len(a) = Len(b)
    /\ \A i \in 1..Len(a) : \A k \in ResultKeys : C22_Read(a[i], k) = C22_Read(b[i], k)

\* C22: when the storage write of a successful upload succeeds, the record holds
\* at most 20 entries and deserializes to the in-memory History of that moment,
\* entry for entry and in the same order.
C22_RecordIsHistory ==
    [][\A p \in Procs :
          (pc[p] = "setItem" /\ pc'[p] = "idle" /\ stored' # stored)
             => /\ stored'.present
                /\ Len(stored'.value) <= HistoryCap
                /\ C22_SameEntries(stored'.value, history')]_vars

\* C23: no two of the results ever built share an id, and no two History entries
\* do.
C23_IdsAreDistinct ==
    /\ \A i, j \in 1..Len(created) : i # j => created[i].id # created[j].id
    /\ \A i, j \in 1..Len(history) : i # j => history[i].id # history[j].id

\* C24: a 2xx response whose body is not valid JSON ends the transaction with an
\* error of the BackendError form (a detail of the body, or the status-code
\* message), builds no result and leaves History unchanged.
C24_MalformedBodyMessagedLikeBackendError ==
    [][\A p \in Procs :
          (pc[p] = "json" /\ resp[p].body.kind = "unparseable" /\ pc'[p] # pc[p])
             => /\ pc'[p] = "idle"
                /\ error' \in {C5_StatusText(resp[p])} \cup (Details \ {Undefined, Str("")})
                /\ UNCHANGED <<history, chat, created>>]_vars

\* C25: in every reachable state progress is one of 0, 10, ..., 90, 100.
C25_ProgressInRange ==
    progress \in {k * ProgressStep : k \in 0..(ProgressDone \div ProgressStep)}

\* the estimator has reached its cap and stopped, the request still outstanding
C25_Witness ==
    /\ pc[1] = "fetch"
    /\ progress = ProgressCap
    /\ interval[1] = [active |-> FALSE, current |-> ProgressCap]

\* C26: progress is set to 100 by the step that receives a response, whatever its
\* status and body, and by no other step; the steps that handle a failure (of the
\* network, of the status, of the body) leave progress as it is.  So a
\* transaction failed by its status or body shows 100 until a reset, and a
\* network failure never brings progress to 100.
C26_HundredExactlyAtResponse ==
    [][/\ \A p \in Procs :
             /\ (pc[p] = "fetch" /\ pc'[p] \in {"json", "errJson"}) => progress' = ProgressDone
             /\ (pc[p] \in {"fetch", "json", "errJson"} /\ pc'[p] = "idle")
                   => progress' = progress
       /\ (progress' = ProgressDone /\ progress # ProgressDone)
             => \E p \in Procs : pc[p] = "fetch" /\ pc'[p] \in {"json", "errJson"}]_vars

\* the only upload so far has failed with a 500 and shows progress 100, its
\* reset timer pending
C26_Witness ==
    /\ nPresses = 1
    /\ \A p \in Procs : pc[p] = "idle"
    /\ error = StatusMessage(500)
    /\ progress = ProgressDone
    /\ timers = 1
    /\ ~uploading

\* C27: whenever uploading is false, no request is outstanding and no call chain
\* is past the start of uploadFile (none is still to set progress to 100, to
\* build a result, to change History or to report a failure of its upload).
C27_UploadingIsTruthful ==
    ~uploading => \A p \in Procs : pc[p] \in {"idle", "permission", "picker"}
====
